---- MODULE Spec2Model ----
(***************************************************************************)
(* proxynet: host-based HTTP reverse proxy.                                *)
(*   src/src/rate_limiter.rs  RateLimiter (fixed window + reaper)          *)
(*   src/src/cache.rs         MemoryCache (TTL map, lazy expiry)           *)
(*   src/src/main.rs          proxy_handler (the request pipeline)         *)
(*   src/src/api.rs           create_domain / update_domain / delete_domain*)
(*   src/src/database.rs      the domains table                            *)
(* Time is in seconds.  Instant::now() is the variable now; it only moves  *)
(* forward, and only to one of the instants of Instants.                   *)
(***************************************************************************)
EXTENDS Integers, Sequences, FiniteSets, TLC

VARIABLES
  now,        \* Instant::now()
  rl_on,      \* AppState.rate_limiter is Some
  limit,      \* RateLimiter.limit (u32)
  rl,         \* RateLimiter.inner: HashMap<String, (u32, Instant)>
  wake,       \* spawn_cleanup: the instant its sleep(window) ends
  calls,      \* history: per identity, the allow calls made, in lock order
  cache,      \* MemoryCache.data: HashMap<String, (String, Instant)>
  lastSet,    \* history: per cache key, the latest insert (its clock reading, its body)
  req,        \* the proxy_handler tasks
  settask,    \* the cache.set tasks proxy_handler spawns, one per handler
  served,     \* history: per cache key, the latest forwarded GET answered 200 upstream
  look,       \* output of a step: the cache lookup it made, <<>> when none
  fin,        \* output of a step: the handler that returned in it, with its response
  routes,     \* AppState.routes: HashMap<String, String>
  wlock,      \* the admin handler holding routes.write(), 0 when none
  db,         \* the domains table: id -> (domain, origin)
  nextId,     \* the table's AUTOINCREMENT counter
  adm,        \* the admin handler tasks
  aout,       \* output of a step: the admin handler that returned in it, with its status
  resolved,   \* output of a step: the route lookup it made
  rdone       \* history: per host with a returned upsert, the value of the latest
              \* write since: that upsert's origin, or what a later write left

rlVars == <<rl_on, limit, rl, wake, calls>>
cacheVars == <<cache, lastSet>>
reqVars == <<req, settask, served>>
outVars == <<look, fin, resolved, aout>>
adminVars == <<routes, wlock, db, nextId, adm, rdone>>
vars == <<now, rlVars, cacheVars, reqVars, outVars, adminVars>>

\* ------------------------------------------------------------------ bounds

MaxLimit == 2      \* limits 0..MaxLimit are configured
MaxCalls == 3      \* allow calls recorded per identity

\* --------------------------------------------------------------- constants

WindowSeconds == 60    \* RateLimiter::new(limit, 60)
DefaultTtl == 300      \* cache.set(cache_key, body_str, 300)

Clients == {"ip1", "ip2"}

\* The instants the limiter's clock visits: the start, one window later
\* (exactly and just past), two windows later (exactly and just past).
Instants ==
  {0, WindowSeconds, WindowSeconds + 1, 2 * WindowSeconds,
   2 * WindowSeconds + 1}
\* The instants of the pipeline's runs: the start, one second later, and one
\* TTL after the start.
ProxyInstants == {0, 1, DefaultTtl}
ProxyClients == {"ip1"}

\* ------------------------------------------------------------ HashMap ops

MapPut(m, k, v) == [x \in DOMAIN m \cup {k} |-> IF x = k THEN v ELSE m[x]]
MapRemove(m, k) == [x \in DOMAIN m \ {k} |-> m[x]]
EmptyMap == [x \in {} |-> 0]

\* ------------------------------------------------------------ RateLimiter

\* allow whose denial restarts the window of the identity.
allow_denial_restarts(map, key, t, lim) ==
  IF key \in DOMAIN map
  THEN IF t - map[key].start > WindowSeconds
       THEN [map |-> MapPut(map, key, [count |-> 1, start |-> t]), ok |-> TRUE]
       ELSE IF map[key].count < lim
            THEN [map |-> MapPut(map, key, [count |-> map[key].count + 1,
                                            start |-> map[key].start]),
                  ok |-> TRUE]
            ELSE [map |-> MapPut(map, key, [count |-> map[key].count,
                                            start |-> t]),
                  ok |-> FALSE]
  ELSE [map |-> MapPut(map, key, [count |-> 1, start |-> t]), ok |-> TRUE]

\* RateLimiter::allow, under the mutex: the map afterwards and the answer.
allow(map, key, t, lim) ==
  IF key \in DOMAIN map
  THEN IF t - map[key].start > WindowSeconds
       THEN [map |-> MapPut(map, key, [count |-> 1, start |-> t]), ok |-> TRUE]
       ELSE IF map[key].count < lim
            THEN [map |-> MapPut(map, key, [count |-> map[key].count + 1,
                                            start |-> map[key].start]),
                  ok |-> TRUE]
            ELSE [map |-> map, ok |-> FALSE]
  ELSE [map |-> MapPut(map, key, [count |-> 1, start |-> t]), ok |-> TRUE]

\* cleanup_retain that keeps nothing.
cleanup_retain_none(map, t) == [k \in {} |-> map[k]]

\* cleanup_retain that keeps every entry.
cleanup_retain_all(map, t) == map

\* The retain of spawn_cleanup's loop body.
cleanup_retain(map, t) ==
  LET max_age == WindowSeconds + WindowSeconds
      keep == {k \in DOMAIN map : t - map[k].start <= max_age}
  IN [k \in keep |-> map[k]]

\* ------------------------------------------------------------ MemoryCache

\* MemoryCache::generate_cache_key: "cache:{domain}:{path}{?query}", as the
\* sequence of its pieces; query is <<>> (None) or <<q>> (Some(q)).
generate_cache_key(domain, path, query) ==
  <<"cache:", domain, ":", path>> \o
    (IF query = <<>> THEN <<>> ELSE <<"?", query[1]>>)

\* cache_get_read with the comparison of the expiry inverted.
cache_get_read_inverted(c, key, t) ==
  IF key \in DOMAIN c
  THEN IF t > c[key].expires_at
       THEN [value |-> <<c[key].value>>, expired |-> FALSE]
       ELSE [value |-> <<>>, expired |-> TRUE]
  ELSE [value |-> <<>>, expired |-> FALSE]

\* cache_get_read that still serves an entry at its expiry instant.
cache_get_read_inclusive(c, key, t) ==
  IF key \in DOMAIN c
  THEN IF t <= c[key].expires_at
       THEN [value |-> <<c[key].value>>, expired |-> FALSE]
       ELSE [value |-> <<>>, expired |-> TRUE]
  ELSE [value |-> <<>>, expired |-> FALSE]

\* MemoryCache::get under the read lock, at clock reading t: the body returned
\* (<<>> for none) and whether the expired branch (drop, write, remove) is taken.
cache_get_read(c, key, t) ==
  IF key \in DOMAIN c
  THEN IF t < c[key].expires_at
       THEN [value |-> <<c[key].value>>, expired |-> FALSE]
       ELSE [value |-> <<>>, expired |-> TRUE]
  ELSE [value |-> <<>>, expired |-> FALSE]

\* MemoryCache::get's expired branch, under the write lock: cache.remove(key).
cache_get_remove(c, key) == MapRemove(c, key)

\* MemoryCache::set: expires_at is computed before the write lock is taken.
cache_set_expiry(t, ttl_seconds) == t + ttl_seconds
cache_set_insert(c, key, value, expires_at) ==
  MapPut(c, key, [value |-> value, expires_at |-> expires_at])

\* ---------------------------------------------------------- proxy_handler

MaxReqs == 2       \* proxy_handler tasks in flight at once

Reqs == 1..MaxReqs

\* Host header values, as the pieces that ':' separates; <<>> is no header.
HostHeaders == {<<"a.test", ":", "8080">>, <<"x.test">>}
Methods == {"GET", "POST"}
Paths == {"/hello"}
Queries == {<<"x=1">>}
\* Upstream answers: bodies are byte sequences, "xFF" a byte that is not UTF-8.
UpStatuses == {200, 404}
UpHeaders == {{<<"content-type", "text/plain">>}}
Bodies == {<<"h", "i">>, <<"xFF">>}

\* hostname.split(':').next(): the piece before the first ':'.
strip_port(hostname) ==
  IF hostname = <<>> \/ hostname[1] = ":" THEN "" ELSE hostname[1]

\* String::from_utf8(bytes).is_ok()
is_utf8(bytes) == \A i \in 1..Len(bytes) : bytes[i] # "xFF"

\* format!("{}{}{}", origin, path, query_part)
upstream_uri(origin, path, query) ==
  <<origin, path>> \o (IF query = <<>> THEN <<>> ELSE <<"?", query[1]>>)

\* upstream_uri.parse::<Uri>().is_ok(): the origin must be a well-formed prefix.
BadOrigin == "http://["
uri_parses(uri) == uri[1] # BadOrigin

\* RequestLog::new(..., status, ...).with_bytes(bytes)
RequestLog(status, bytes) == [status |-> status, bytes_sent |-> bytes]

\* The responses proxy_handler builds.
resp_429 ==
  [status |-> 429, headers |-> {}, body |-> <<"Too many requests">>]
\* resp_404 with a body that does not name the host.
resp_404_generic(host) ==
  [status |-> 404, headers |-> {}, body |-> <<"Domain not configured">>]
resp_404(host) ==
  [status |-> 404, headers |-> {},
   body |-> <<"Domain '", host, "' not configured">>]
resp_hit(cached_response) ==
  [status |-> 200, headers |-> {<<"X-Cache", "HIT">>}, body |-> cached_response]
resp_status(code) == [status |-> code, headers |-> {}, body |-> <<>>]
\* Ok(Response::new(Body::from(bytes))): a fresh response, status 200, no headers.
resp_forwarded(status, headers, bytes) ==
  [status |-> 200, headers |-> {}, body |-> bytes]

\* database::save_log returns Ok(()) or Err(sqlx::Error).
SinkResults == {"ok", "err"}

\* after_save_log that turns a failed append into a 500.
after_save_log_surfaced(result, response) ==
  IF result = "err" THEN resp_status(500) ELSE response

\* let _ = save_log(&state.db, &log).await; the result is discarded and the
\* handler goes on to the response it was about to give.
after_save_log(result, response) == response

\* rate_limited without the negation of allow's answer.
rate_limited_unnegated(on, ok) == on /\ ok

\* Lines 194-195: if let Some(rl) = &state.rate_limiter { if !rl.allow(..) .. }
rate_limited(on, ok) == on /\ ~ok

\* cacheable without the test of the status.
cacheable_any_status(method, status) == method = "GET"

\* method == "GET" && status == 200, the condition of the cache write.
cacheable(method, status) == method = "GET" /\ status = 200

IdleReq ==
  [pc |-> "idle", hostname |-> <<>>, method |-> "GET", path |-> "/hello",
   query |-> <<>>, ip |-> "ip1", host |-> "", origin |-> "", key |-> <<>>,
   allowed |-> TRUE, seen |-> <<>>, sent |-> <<>>, up |-> <<>>,
   upbody |-> <<>>, fail |-> "", resp |-> <<>>, logs |-> <<>>, steps |-> <<>>,
   saved |-> ""]

IdleSet == [st |-> "none", key |-> <<>>, value |-> <<>>, expires_at |-> 0]

MapGet(m, k) == IF k \in DOMAIN m THEN <<m[k]>> ELSE <<>>

\* routes.get(host): <<origin>>, or <<>> for None.
resolve(table, host) == MapGet(table, host)

\* The handler of slot r returns response rs: fin shows its record for this
\* step (pc: where it returned from), the slot is free for the next connection.
Return(r, q, rs) ==
  /\ fin' = <<[q EXCEPT !.resp = <<rs>>]>>
  /\ req' = [req EXCEPT ![r] = IdleReq]

\* Lines 166-202: the fields of the request, then the rate limiter.  seen is
\* history: what had been served for this key when the handler started.
\* Slots are taken in order.
Start(r, hostnames, methods) ==
  /\ req[r].pc = "idle"
  /\ settask[r].st = "none"
  /\ \A r2 \in Reqs : r2 < r => req[r2].pc # "idle"
  /\ \E hn \in hostnames, m \in methods, p \in Paths, q \in Queries,
        ip \in ProxyClients :
       LET host == strip_port(hn)
           key == generate_cache_key(host, p, q)
           a == allow(rl, ip, now, limit)
           denied == rate_limited(rl_on, a.ok)
           base == [IdleReq EXCEPT !.hostname = hn, !.method = m, !.path = p,
                      !.query = q, !.ip = ip, !.host = host, !.key = key,
                      !.allowed = ~rl_on \/ a.ok,
                      !.seen = IF m = "GET" THEN MapGet(served, key) ELSE <<>>,
                      !.steps = IF rl_on THEN <<"rate">> ELSE <<>>]
       IN /\ rl' = IF rl_on THEN a.map ELSE rl
          /\ IF denied
             THEN Return(r, base, resp_429)
             ELSE /\ req' = [req EXCEPT ![r] = [base EXCEPT !.pc = "route"]]
                  /\ fin' = <<>>
  /\ look' = <<>> /\ resolved' = <<>> /\ aout' = <<>>
  /\ UNCHANGED <<now, rl_on, limit, wake, calls, cacheVars, settask, served,
                 adminVars>>

\* Lines 204-231: routes.read().await and the lookup.  On a miss the record is
\* logged and save_log is awaited with the read guard still alive.  resolved is
\* the lookup's result beside the history of the host's writes.
Route(r) ==
  /\ req[r].pc = "route"
  /\ wlock = 0
  /\ LET q == req[r]
         st == Append(q.steps, "route")
         o == resolve(routes, q.host)
     IN /\ req' = [req EXCEPT ![r] =
          IF o # <<>>
          THEN [q EXCEPT !.origin = o[1], !.steps = st,
                  !.pc = IF q.method = "GET" THEN "cache" ELSE "forward"]
          ELSE [q EXCEPT !.steps = Append(st, "log"),
                  !.logs = Append(q.logs, RequestLog(404, 0)),
                  !.pc = "save404"]]
        /\ resolved' = <<[r |-> r, hostname |-> q.hostname, host |-> q.host,
                          keys |-> DOMAIN routes, value |-> o,
                          latest |-> MapGet(rdone, q.host)]>>
  /\ look' = <<>> /\ fin' = <<>> /\ aout' = <<>>
  /\ UNCHANGED <<now, rlVars, cacheVars, settask, served, adminVars>>

\* Lines 223-228: save_log has returned; the 404 is answered.  saved is
\* history: what save_log returned.
Answer404(r) ==
  /\ req[r].pc = "save404"
  /\ \E res \in SinkResults :
       Return(r, [req[r] EXCEPT !.saved = res],
              after_save_log(res, resp_404(req[r].host)))
  /\ look' = <<>> /\ resolved' = <<>> /\ aout' = <<>>
  /\ UNCHANGED <<now, rlVars, cacheVars, settask, served, adminVars>>

\* Lines 235-263: cache.get up to its return or to the drop of the read guard.
\* On a hit save_log is spawned, not awaited.
\* look is history: the clock reading, what the cache held for the key, what
\* the handler had seen served when it started, and what the lookup led to.
CacheLookup(r) ==
  /\ req[r].pc = "cache"
  /\ LET q == req[r]
         g == cache_get_read(cache, q.key, now)
         hit == g.value # <<>>
         st == Append(q.steps, "cache")
         rs == IF hit THEN <<resp_hit(g.value[1])>> ELSE <<>>
     IN /\ look' = <<[t |-> now, key |-> q.key, stored |-> MapGet(cache, q.key),
                      last |-> MapGet(lastSet, q.key), seen |-> q.seen,
                      hit |-> hit, resp |-> rs,
                      next |-> IF hit THEN "done"
                               ELSE IF g.expired THEN "cache_rm" ELSE "forward"]>>
        /\ IF hit
           THEN Return(r, [q EXCEPT !.steps = Append(st, "log"), !.seen = <<>>,
                             !.saved = "spawned",
                             !.logs = Append(q.logs,
                                        RequestLog(200, Len(g.value[1])))],
                       resp_hit(g.value[1]))
           ELSE /\ req' = [req EXCEPT ![r] =
                     [q EXCEPT !.steps = st, !.seen = <<>>,
                        !.pc = IF g.expired THEN "cache_rm" ELSE "forward"]]
                /\ fin' = <<>>
  /\ resolved' = <<>> /\ aout' = <<>>
  /\ UNCHANGED <<now, rlVars, cacheVars, settask, served, adminVars>>

\* cache.rs 25-29: the write lock is taken and the key removed.
CacheRemove(r) ==
  /\ req[r].pc = "cache_rm"
  /\ cache' = cache_get_remove(cache, req[r].key)
  /\ req' = [req EXCEPT ![r].pc = "forward"]
  /\ look' = <<>> /\ fin' = <<>> /\ resolved' = <<>> /\ aout' = <<>>
  /\ UNCHANGED <<now, rlVars, lastSet, settask, served, adminVars>>

\* Lines 266-277: the upstream request is built and sent.
Forward(r) ==
  /\ req[r].pc = "forward"
  /\ LET q == req[r]
         uri == upstream_uri(q.origin, q.path, q.query)
     IN IF uri_parses(uri)
        THEN /\ req' = [req EXCEPT ![r] =
                  [q EXCEPT !.sent = <<[uri |-> uri, method |-> q.method,
                                        host_header |-> <<>>]>>,
                     !.steps = Append(q.steps, "forward"), !.pc = "upstream"]]
             /\ fin' = <<>>
        ELSE Return(r, q, resp_status(400))
  /\ look' = <<>> /\ resolved' = <<>> /\ aout' = <<>>
  /\ UNCHANGED <<now, rlVars, cacheVars, settask, served, adminVars>>

\* Lines 277-280 and 326-341: client.request(req) returns: the head of a
\* response, or an error, which is logged as 502 before save_log is awaited.
UpstreamHead(r, statuses) ==
  /\ req[r].pc = "upstream"
  /\ \/ \E s \in statuses, h \in UpHeaders :
          req' = [req EXCEPT ![r].up = <<[status |-> s, headers |-> h]>>,
                             ![r].pc = "body"]
     \/ req' = [req EXCEPT ![r].logs = Append(@, RequestLog(502, 0)),
                           ![r].steps = Append(@, "log"),
                           ![r].fail = "connect",
                           ![r].pc = "save502"]
  /\ look' = <<>> /\ fin' = <<>> /\ resolved' = <<>> /\ aout' = <<>>
  /\ UNCHANGED <<now, rlVars, cacheVars, settask, served, adminVars>>

\* Lines 341-343: save_log has returned; Err(StatusCode::BAD_GATEWAY).
Answer502(r) ==
  /\ req[r].pc = "save502"
  /\ \E res \in SinkResults :
       Return(r, [req[r] EXCEPT !.saved = res],
              after_save_log(res, resp_status(502)))
  /\ look' = <<>> /\ resolved' = <<>> /\ aout' = <<>>
  /\ UNCHANGED <<now, rlVars, cacheVars, settask, served, adminVars>>

\* Lines 282-324: the body is collected.  A read failure leaves through `?`
\* with 502; a complete body is cached (a spawned set), logged (a spawned
\* save_log) and returned.
UpstreamBody(r, bodies) ==
  /\ req[r].pc = "body"
  /\ LET q == req[r]
         status == q.up[1].status
     IN \/ /\ Return(r, [q EXCEPT !.fail = "body"], resp_status(502))
           /\ UNCHANGED <<settask, served>>
        \/ \E bytes \in bodies :
             LET caches == cacheable(q.method, status) /\ is_utf8(bytes)
                 st == IF caches THEN Append(q.steps, "cache_write") ELSE q.steps
             IN /\ settask' = [settask EXCEPT ![r] =
                      IF caches
                      THEN [IdleSet EXCEPT !.st = "spawned", !.key = q.key,
                              !.value = bytes]
                      ELSE @]
                /\ served' = IF q.method = "GET" /\ status = 200
                             THEN MapPut(served, q.key, [t |-> now, body |-> bytes])
                             ELSE served
                /\ Return(r, [q EXCEPT !.upbody = <<bytes>>, !.saved = "spawned",
                                !.steps = Append(st, "log"),
                                !.logs = Append(q.logs,
                                           RequestLog(status, Len(bytes)))],
                          resp_forwarded(status, q.up[1].headers, bytes))
  /\ look' = <<>> /\ resolved' = <<>> /\ aout' = <<>>
  /\ UNCHANGED <<now, rlVars, cacheVars, adminVars>>

\* cache.rs 34: the spawned set reads the clock.
SetExpiry(r) ==
  /\ settask[r].st = "spawned"
  /\ settask' = [settask EXCEPT ![r].st = "timed",
                   ![r].expires_at = cache_set_expiry(now, DefaultTtl)]
  /\ look' = <<>> /\ fin' = <<>> /\ resolved' = <<>> /\ aout' = <<>>
  /\ UNCHANGED <<now, rlVars, cacheVars, req, served, adminVars>>

\* cache.rs 35-36: the spawned set takes the write lock and inserts.
SetInsert(r) ==
  /\ settask[r].st = "timed"
  /\ LET s == settask[r]
     IN /\ cache' = cache_set_insert(cache, s.key, s.value, s.expires_at)
        /\ lastSet' = MapPut(lastSet, s.key,
                        [t |-> s.expires_at - DefaultTtl, value |-> s.value])
  /\ settask' = [settask EXCEPT ![r] = IdleSet]
  /\ look' = <<>> /\ fin' = <<>> /\ resolved' = <<>> /\ aout' = <<>>
  /\ UNCHANGED <<now, rlVars, req, served, adminVars>>

\* ------------------------------------------------- the admin handlers

MaxAdmins == 1     \* admin handler tasks in flight at once
MaxId == 2         \* the ids the domains table hands out

Admins == 1..MaxAdmins
AdminHosts == {"a.test", "x.test"}
AdminOrigins == {"http://o1", "http://o2"}

\* was is history: the domain the row of the id bound when an update or a
\* delete began.
IdleAdm ==
  [pc |-> "idle", op |-> "", id |-> 0, domain |-> "", origin |-> "", was |-> ""]

\* The rows of the table whose domain is d.
RowsOf(table, d) == {i \in DOMAIN table : table[i].domain = d}

\* database::create_domain: the INSERT fails on the UNIQUE domain column.
db_create_ok(table, domain) == RowsOf(table, domain) = {}
db_create(table, id, domain, origin) ==
  MapPut(table, id, [domain |-> domain, origin |-> origin])

\* database::update_domain: the UPDATE fails on the UNIQUE domain column, and
\* the SELECT that follows it fails when no row has the id.
db_update_ok(table, id, domain) ==
  id \in DOMAIN table /\ RowsOf(table, domain) \subseteq {id}
db_update(table, id, domain, origin) ==
  MapPut(table, id, [domain |-> domain, origin |-> origin])

\* database::delete_domain: the DELETE succeeds whether or not a row has the id.
db_delete(table, id) == MapRemove(table, id)

\* api.rs 102-103: routes_lock.insert(domain, origin).
create_routes(table, domain, origin) == MapPut(table, domain, origin)

\* update_routes with the insert before the remove.
update_routes_insert_first(table, rows, id, domain, origin) ==
  LET inserted == MapPut(table, domain, origin)
  IN IF id \in DOMAIN rows THEN MapRemove(inserted, rows[id].domain)
     ELSE inserted

\* api.rs 163-171: the row of the id is read back from the table, its domain
\* removed from the routes, then the payload's binding inserted.
update_routes(table, rows, id, domain, origin) ==
  LET removed == IF id \in DOMAIN rows
                 THEN MapRemove(table, rows[id].domain) ELSE table
  IN MapPut(removed, domain, origin)

\* api.rs 200-205: the row of the id is read back from the table after the
\* DELETE, and its domain removed from the routes when there is one.
delete_routes(table, rows, id) ==
  IF id \in DOMAIN rows THEN MapRemove(table, rows[id].domain) ELSE table

\* No proxy_handler holds routes.read(): the guard lives across save_log.
NoReader == \A r \in Reqs : req[r].pc # "save404"

\* The history of the writes: an upsert of (domain, origin) that returns
\* records its origin for the domain; a change of any other recorded host's
\* binding records what the change left.
Written(old, new, h) == resolve(old, h) # resolve(new, h)
LatestWrites(old, new, upserted) ==
  [h \in DOMAIN rdone \cup DOMAIN upserted |->
     IF h \in DOMAIN upserted THEN <<upserted[h]>>
     ELSE IF Written(old, new, h) THEN resolve(new, h) ELSE rdone[h]]

\* The pool's part in a database:: call: every statement runs, the write
\* statement fails, or the write runs and the SELECT after it fails.
IoResults == {"ok", "write_fails", "read_fails"}

\* admin_status that answers the success status whatever the database said.
admin_status_always_ok(ok_status, err) == ok_status

\* The match on the database call's Result: Ok(_) goes on to the routes and
\* the success status, Err(_) answers 500 (api.rs 114-118, 182-186, 209-213).
\* err is "" for Ok.
admin_status(ok_status, err) == IF err = "" THEN ok_status ELSE 500

\* database::create_domain's Err: the INSERT fails (pool, or the UNIQUE
\* domain column), or the SELECT after it fails.
db_create_err(table, domain, io) ==
  IF io = "write_fails" THEN "io"
  ELSE IF ~db_create_ok(table, domain) THEN "constraint"
  ELSE IF io = "read_fails" THEN "io" ELSE ""

\* database::update_domain's Err: the UPDATE fails (pool, or the UNIQUE domain
\* column), or the SELECT after it fails (pool, or no row has the id).
db_update_err(table, id, domain, io) ==
  IF io = "write_fails" THEN "io"
  ELSE IF id \notin DOMAIN table THEN "norow"
  ELSE IF ~db_update_ok(table, id, domain) THEN "constraint"
  ELSE IF io = "read_fails" THEN "io" ELSE ""

\* database::delete_domain's Err: the DELETE fails.
db_delete_err(io) == IF io = "write_fails" THEN "io" ELSE ""

AdminReturn(a, status) ==
  /\ aout' = <<[op |-> adm[a].op, id |-> adm[a].id, domain |-> adm[a].domain,
                origin |-> adm[a].origin, was |-> adm[a].was,
                status |-> admin_status(status, ""), err |-> ""]>>
  /\ adm' = [adm EXCEPT ![a] = IdleAdm]

\* api.rs 94-120, first await: database::create_domain.  The row is written
\* unless the INSERT failed; the handler goes on only after Ok.
CreateDb(a, ios) ==
  /\ adm[a].pc = "idle"
  /\ \A a2 \in Admins : a2 < a => adm[a2].pc # "idle"
  /\ nextId <= MaxId
  /\ \E d \in AdminHosts, o \in AdminOrigins, io \in ios :
       LET err == db_create_err(db, d, io)
           written == io # "write_fails" /\ db_create_ok(db, d)
       IN /\ db' = IF written THEN db_create(db, nextId, d, o) ELSE db
          /\ nextId' = IF written THEN nextId + 1 ELSE nextId
          /\ IF err = ""
             THEN /\ adm' = [adm EXCEPT ![a] = [pc |-> "lock", op |-> "create",
                                                 id |-> nextId, domain |-> d,
                                                 origin |-> o, was |-> ""]]
                  /\ aout' = <<>>
             ELSE /\ aout' = <<[op |-> "create", id |-> 0, domain |-> d,
                                origin |-> o, was |-> "",
                                status |-> admin_status(201, err),
                                err |-> err]>>
                  /\ UNCHANGED adm
  /\ look' = <<>> /\ fin' = <<>> /\ resolved' = <<>>
  /\ UNCHANGED <<now, rlVars, cacheVars, reqVars, routes, wlock, rdone>>

\* api.rs 102-112: routes.write().await, the insert, 201.
CreateRoutes(a) ==
  /\ adm[a].pc = "lock" /\ adm[a].op = "create"
  /\ wlock = 0 /\ NoReader
  /\ LET new == create_routes(routes, adm[a].domain, adm[a].origin)
     IN /\ routes' = new
        /\ rdone' = LatestWrites(routes, new,
                                  [h \in {adm[a].domain} |-> adm[a].origin])
  /\ AdminReturn(a, 201)
  /\ look' = <<>> /\ fin' = <<>> /\ resolved' = <<>>
  /\ UNCHANGED <<now, rlVars, cacheVars, reqVars, wlock, db, nextId>>

\* api.rs 152-158: database::update_domain.  The row is rewritten unless the
\* UPDATE failed or matched no row.
UpdateDb(a, ios) ==
  /\ adm[a].pc = "idle"
  /\ \A a2 \in Admins : a2 < a => adm[a2].pc # "idle"
  /\ \E i \in 1..MaxId, d \in AdminHosts, o \in AdminOrigins, io \in ios :
       LET err == db_update_err(db, i, d, io)
           written == io # "write_fails" /\ db_update_ok(db, i, d)
       IN /\ db' = IF written THEN db_update(db, i, d, o) ELSE db
          /\ IF err = ""
             THEN /\ adm' = [adm EXCEPT ![a] = [pc |-> "lock", op |-> "update",
                                                 id |-> i, domain |-> d,
                                                 origin |-> o,
                                                 was |-> db[i].domain]]
                  /\ aout' = <<>>
             ELSE /\ aout' = <<[op |-> "update", id |-> i, domain |-> d,
                                origin |-> o, was |-> "",
                                status |-> admin_status(200, err),
                                err |-> err]>>
                  /\ UNCHANGED adm
  /\ look' = <<>> /\ fin' = <<>> /\ resolved' = <<>>
  /\ UNCHANGED <<now, rlVars, cacheVars, reqVars, routes, wlock, nextId, rdone>>

\* api.rs 190-195: database::delete_domain.
DeleteDb(a, ios) ==
  /\ adm[a].pc = "idle"
  /\ \A a2 \in Admins : a2 < a => adm[a2].pc # "idle"
  /\ \E i \in 1..MaxId, io \in ios \ {"read_fails"} :
       LET err == db_delete_err(io)
       IN IF err = ""
          THEN /\ db' = db_delete(db, i)
               /\ adm' = [adm EXCEPT ![a] =
                            [pc |-> "lock", op |-> "delete", id |-> i,
                             domain |-> "", origin |-> "",
                             was |-> IF i \in DOMAIN db
                                     THEN db[i].domain ELSE ""]]
               /\ aout' = <<>>
          ELSE /\ aout' = <<[op |-> "delete", id |-> i, domain |-> "",
                             origin |-> "", was |-> "",
                             status |-> admin_status(204, err), err |-> err]>>
               /\ UNCHANGED <<db, adm>>
  /\ look' = <<>> /\ fin' = <<>> /\ resolved' = <<>>
  /\ UNCHANGED <<now, rlVars, cacheVars, reqVars, routes, wlock, nextId, rdone>>

\* api.rs 161 and 198: routes.write().await of update_domain and delete_domain;
\* get_all_domains is awaited with the guard alive.
AcquireWrite(a) ==
  /\ adm[a].pc = "lock" /\ adm[a].op \in {"update", "delete"}
  /\ wlock = 0 /\ NoReader
  /\ wlock' = a
  /\ adm' = [adm EXCEPT ![a].pc = "read"]
  /\ aout' = <<>>
  /\ look' = <<>> /\ fin' = <<>> /\ resolved' = <<>>
  /\ UNCHANGED <<now, rlVars, cacheVars, reqVars, routes, db, nextId, rdone>>

\* api.rs 163-180: get_all_domains has returned; remove, insert, 200.
UpdateRoutes(a) ==
  /\ adm[a].pc = "read" /\ adm[a].op = "update"
  /\ LET new == update_routes(routes, db, adm[a].id, adm[a].domain, adm[a].origin)
     IN /\ routes' = new
        /\ rdone' = LatestWrites(routes, new,
                                  [h \in {adm[a].domain} |-> adm[a].origin])
  /\ wlock' = 0
  /\ AdminReturn(a, 200)
  /\ look' = <<>> /\ fin' = <<>> /\ resolved' = <<>>
  /\ UNCHANGED <<now, rlVars, cacheVars, reqVars, db, nextId>>

\* api.rs 200-207: get_all_domains has returned; remove, 204.
DeleteRoutes(a) ==
  /\ adm[a].pc = "read" /\ adm[a].op = "delete"
  /\ LET new == delete_routes(routes, db, adm[a].id)
     IN /\ routes' = new
        /\ rdone' = LatestWrites(routes, new, EmptyMap)
  /\ wlock' = 0
  /\ AdminReturn(a, 204)
  /\ look' = <<>> /\ fin' = <<>> /\ resolved' = <<>>
  /\ UNCHANGED <<now, rlVars, cacheVars, reqVars, db, nextId>>

\* ------------------------------------------------------------------ clock

TickTo(instants) ==
  /\ \E t \in instants : t > now /\ now' = t
  /\ look' = <<>> /\ fin' = <<>> /\ resolved' = <<>> /\ aout' = <<>>
  /\ UNCHANGED <<rlVars, cacheVars, reqVars, adminVars>>

\* ------------------------------------------- the rate limiter on its own

InitClock == now = 0

InitLimiter ==
  /\ limit \in 0..MaxLimit
  /\ rl = EmptyMap
  /\ wake = WindowSeconds
  /\ calls = [c \in Clients |-> <<>>]

InitCache ==
  /\ cache = EmptyMap
  /\ lastSet = EmptyMap

InitReqs ==
  /\ req = [r \in Reqs |-> IdleReq]
  /\ settask = [r \in Reqs |-> IdleSet]
  /\ served = EmptyMap
  /\ look = <<>>
  /\ fin = <<>>
  /\ resolved = <<>>
  /\ aout = <<>>

\* main 95-107: the routes are loaded from the domains table.
InitAdmin ==
  /\ db = [i \in {1} |-> [domain |-> "a.test", origin |-> "http://o1"]]
  /\ nextId = 2
  /\ routes = [h \in {"a.test"} |-> "http://o1"]
  /\ wlock = 0
  /\ adm = [a \in Admins |-> IdleAdm]
  /\ rdone = EmptyMap

InitRL ==
  /\ InitClock /\ InitLimiter /\ InitCache /\ InitReqs /\ InitAdmin
  /\ rl_on = TRUE

\* One allow(id) call, from lock acquisition to return.  known is history:
\* whether the map had the identity when the call was made.
RlAllow(id) ==
  /\ Len(calls[id]) < MaxCalls
  /\ LET r == allow(rl, id, now, limit)
     IN /\ rl' = r.map
        /\ calls' = [calls EXCEPT ![id] =
                      Append(@, [t |-> now, ok |-> r.ok,
                                 known |-> id \in DOMAIN rl])]
  /\ UNCHANGED <<now, rl_on, limit, wake, cacheVars, reqVars, outVars, adminVars>>

\* One pass of the reaper: its sleep has ended, it takes the lock and retains.
RlCleanup ==
  /\ now >= wake
  /\ rl' = cleanup_retain(rl, now)
  /\ wake' = now + WindowSeconds
  /\ look' = <<>> /\ fin' = <<>> /\ resolved' = <<>> /\ aout' = <<>>
  /\ UNCHANGED <<now, rl_on, limit, calls, cacheVars, reqVars, adminVars>>

NextRL ==
  \/ TickTo(Instants)
  \/ \E id \in Clients : RlAllow(id)
  \/ RlCleanup

SpecRL == InitRL /\ [][NextRL]_vars

\* The reaper's task is scheduled: when its sleep has ended, its pass runs.
SpecReaper == SpecRL /\ WF_vars(RlCleanup)

\* ------------------------------------------------- the request pipeline

\* main 72-90: the limiter exists when rate_limit_per_minute parses as a u32.
\* With a limiter the limit is at most one request per window, so that the
\* connections of one client are denied.
InitProxy ==
  /\ InitClock /\ InitLimiter /\ InitCache /\ InitReqs /\ InitAdmin
  /\ rl_on \in BOOLEAN
  /\ rl_on = FALSE => limit = 0
  /\ rl_on = TRUE => limit <= 1

NextProxy ==
  \/ TickTo(ProxyInstants)
  \/ RlCleanup
  \/ \E r \in Reqs :
       \/ Start(r, HostHeaders, Methods)
       \/ Route(r)
       \/ Answer404(r)
       \/ CacheLookup(r)
       \/ CacheRemove(r)
       \/ Forward(r)
       \/ UpstreamHead(r, UpStatuses)
       \/ Answer502(r)
       \/ UpstreamBody(r, Bodies)
       \/ SetExpiry(r)
       \/ SetInsert(r)

SpecProxy == InitProxy /\ [][NextProxy]_vars

\* --------------------------------- the admin surface beside the pipeline

\* No limiter; one connection at a time, POST requests for either host.  The
\* pool does not fail: the database calls fail on the table's contents only.
InitAdmSpec ==
  /\ InitClock /\ InitLimiter /\ InitCache /\ InitReqs /\ InitAdmin
  /\ rl_on = FALSE /\ limit = 0

NextAdmin ==
  \/ \E a \in Admins :
       \/ CreateDb(a, {"ok"})
       \/ CreateRoutes(a)
       \/ UpdateDb(a, {"ok"})
       \/ DeleteDb(a, {"ok"})
       \/ AcquireWrite(a)
       \/ UpdateRoutes(a)
       \/ DeleteRoutes(a)
  \/ \E r \in {1} :
       \/ Start(r, {<<"a.test">>, <<"x.test">>}, {"POST"})
       \/ Route(r)
       \/ Answer404(r)
       \/ Forward(r)
       \/ UpstreamHead(r, {200})
       \/ Answer502(r)
       \/ UpstreamBody(r, {<<"h", "i">>})

SpecAdmin == InitAdmSpec /\ [][NextAdmin]_vars

\* The admin surface on its own, with a pool that may fail any statement.
NextStore ==
  \/ \E a \in {1} :
       \/ CreateDb(a, IoResults)
       \/ CreateRoutes(a)
       \/ UpdateDb(a, IoResults)
       \/ DeleteDb(a, IoResults)
       \/ AcquireWrite(a)
       \/ UpdateRoutes(a)
       \/ DeleteRoutes(a)

SpecStore == InitAdmSpec /\ [][NextStore]_vars

\* -------------------------------------------------------------- the locks

\* AppState.routes (RwLock), MemoryCache.data (RwLock), RateLimiter.inner (Mutex).
Locks == {"routes", "cache", "limiter"}

\* handler_holds without drop(routes) at main 231: the read guard would live
\* to the end of the handler.
handler_holds_no_drop(pc) ==
  IF pc \in {"save404", "cache", "cache_rm", "forward", "upstream", "body",
             "save502"}
  THEN {"routes"} ELSE {}

\* The guards a proxy_handler has alive between two steps: only the read
\* guard of the routes, across save_log on the 404 path; drop(routes) at main
\* 231 ends it on the other path, allow's guard ends with allow, get's read
\* guard is dropped before its write lock is asked for.
handler_holds(pc) == IF pc = "save404" THEN {"routes"} ELSE {}

\* The lock the next step of a proxy_handler asks for: rl.allow (main 195),
\* routes.read() (main 205), cache.get's read() and write() (cache 19, 26).
handler_acquires(pc, limiter_on) ==
  CASE pc = "idle" -> IF limiter_on THEN {"limiter"} ELSE {}
    [] pc = "route" -> {"routes"}
    [] pc \in {"cache", "cache_rm"} -> {"cache"}
    [] OTHER -> {}

\* MemoryCache::set asks for the write lock after it has read the clock.
set_acquires(st) == IF st = "timed" THEN {"cache"} ELSE {}

\* The admin handlers: routes.write() is asked for after the database call
\* and, in update_domain and delete_domain, held across get_all_domains.
admin_holds(pc) == IF pc = "read" THEN {"routes"} ELSE {}
admin_acquires(pc) == IF pc = "lock" THEN {"routes"} ELSE {}

\* spawn_cleanup's loop body asks for the limiter's mutex and nothing else.
cleanup_acquires == {"limiter"}

\* The points where a proxy_handler waits for the sink (save_log(..).await,
\* main 223 and 341) and an admin handler for the store (get_all_domains
\* awaited after routes.write(), api 164 and 201).
handler_awaits_sink(pc) == pc \in {"save404", "save502"}
admin_awaits_store(pc) == pc = "read"

\* ------------------------------------ one connection, and its progress

\* One connection at a time, no limiter, every method and upstream answer.
NextOne ==
  \/ TickTo(ProxyInstants)
  \/ \E r \in {1} :
       \/ Start(r, HostHeaders, Methods)
       \/ Route(r)
       \/ Answer404(r)
       \/ CacheLookup(r)
       \/ CacheRemove(r)
       \/ Forward(r)
       \/ UpstreamHead(r, UpStatuses)
       \/ Answer502(r)
       \/ UpstreamBody(r, Bodies)
       \/ SetExpiry(r)
       \/ SetInsert(r)

\* The steps the runtime takes on its own: lock acquisitions and the code
\* between two awaits of the handler and of the task it spawns.
HandlerSteps ==
  \E r \in {1} :
    \/ Route(r) \/ CacheLookup(r) \/ CacheRemove(r) \/ Forward(r)
    \/ SetExpiry(r) \/ SetInsert(r)

\* The steps that wait for the upstream: client.request(req).await and
\* collect().await.  The client is built without a timeout (main 93).
UpstreamSteps ==
  \E r \in {1} : UpstreamHead(r, UpStatuses) \/ UpstreamBody(r, Bodies)

\* The steps that wait for the sink: save_log(..).await of the handler.
SinkSteps == \E r \in {1} : Answer404(r) \/ Answer502(r)

\* The sink always returns; the upstream may stay silent for ever.
SpecUpstreamSilent ==
  InitAdmSpec /\ [][NextOne]_vars /\ WF_vars(HandlerSteps) /\ WF_vars(SinkSteps)

\* The upstream always answers; the sink may never return.
SpecSinkSilent ==
  InitAdmSpec /\ [][NextOne]_vars /\ WF_vars(HandlerSteps)
    /\ WF_vars(UpstreamSteps)

\* ------------------------------------------------------------------ C1

\* The claim's reading of a call history h of one identity: ws is the start
\* of the window in progress (-1: none yet), n the calls already made in it.
RECURSIVE WindowRule(_, _, _, _)
WindowRule(h, i, ws, n) ==
  IF i > Len(h) THEN TRUE
  ELSE IF ws >= 0 /\ h[i].t - ws <= WindowSeconds
       THEN (h[i].ok <=> n < limit) /\ WindowRule(h, i + 1, ws, n + 1)
       ELSE /\ (ws >= 0 => h[i].ok)
            /\ (h[i].ok <=> 0 < limit)
            /\ WindowRule(h, i + 1, h[i].t, 1)

\* C1: of the calls one identity makes within one window exactly the first
\* `limit` return true and the later ones false; the first call after the
\* window has elapsed returns true and opens a new window.
C1_FixedWindow == \A id \in Clients : WindowRule(calls[id], 1, -1, 0)

\* The same rule for the limits of at least one request per window.
FixedWindowPositive == limit >= 1 => C1_FixedWindow

\* ------------------------------------------------------------------ C2

\* C2: a lookup made while the latest entry written for its key is within its
\* TTL (written at T, looked up at t, T <= t < T + ttl) is a hit that answers
\* the written body with X-Cache: HIT; a lookup at t >= T + ttl is a miss that
\* goes on to the upstream.
C2_ReadsWithinTtl ==
  look # <<>> /\ look[1].last # <<>> =>
    LET l == look[1]
        w == l.last[1]
    IN /\ (w.t <= l.t /\ l.t < w.t + DefaultTtl =>
             l.hit /\ l.resp = <<resp_hit(w.value)>>)
       /\ (l.t >= w.t + DefaultTtl =>
             ~l.hit /\ l.next \in {"cache_rm", "forward"})

\* ------------------------------------------------------------------ C3

C4_NoExpiredBody ==
  look # <<>> /\ look[1].hit =>
    /\ look[1].stored # <<>>
    /\ ~(look[1].stored[1].expires_at <= look[1].t)
    /\ look[1].resp[1].body = look[1].stored[1].value

\* A cache hit one second before the expiry of the stored entry.
C4_Witness ==
  /\ look # <<>> /\ look[1].hit
  /\ look[1].stored[1].expires_at = look[1].t + 1

\* ------------------------------------------------------------------ C5

\* The host of a Host header as the claim reads it: the port suffix stripped.
HostOf(hostname) == IF hostname = <<>> THEN "" ELSE hostname[1]

StepRank(x) ==
  CASE x = "rate" -> 1 [] x = "route" -> 2 [] x = "cache" -> 3
    [] x = "forward" -> 4 [] x = "cache_write" -> 5 [] x = "log" -> 6

Ordered(steps) ==
  \A i \in 1..Len(steps), j \in 1..Len(steps) :
    i < j => StepRank(steps[i]) < StepRank(steps[j])

\* C6: a handler that the limiter denies returns 429 having done nothing but
\* the rate-limit step, no handler goes on after a denial, and the steps of
\* every handler are in the order rate-limit, route, cache, forward, cache
\* write, log.
C6_DeniedStopsAndOrder ==
  /\ \A r \in Reqs : req[r].pc # "idle" => req[r].allowed /\ Ordered(req[r].steps)
  /\ fin # <<>> =>
       /\ Ordered(fin[1].steps)
       /\ (fin[1].resp[1].status = 429 <=> ~fin[1].allowed)
       /\ (~fin[1].allowed =>
             /\ fin[1].steps = <<"rate">>
             /\ fin[1].sent = <<>> /\ fin[1].logs = <<>>
             /\ look = <<>> /\ resolved = <<>>)

\* A request denied by the limiter.
C6_Witness == rl_on /\ fin # <<>> /\ fin[1].resp[1].status = 429

\* ------------------------------------------------------------------ C7

\* C7: a forwarded request whose upstream response arrived complete is
\* answered with the upstream's status, headers and body.
C7_ForwardedVerbatim ==
  fin # <<>> /\ fin[1].upbody # <<>> =>
    /\ fin[1].resp[1].status = fin[1].up[1].status
    /\ fin[1].resp[1].headers = fin[1].up[1].headers
    /\ fin[1].resp[1].body = fin[1].upbody[1]

\* ------------------------------------------------------------------ C8

\* C8: every upstream failure (of the request, or of the read of the body) is
\* answered 502 and logged as (502, 0 bytes).
C8_FailureLogged ==
  fin # <<>> /\ fin[1].fail # "" =>
    /\ fin[1].resp[1].status = 502
    /\ fin[1].logs = <<[status |-> 502, bytes_sent |-> 0]>>

\* ------------------------------------------------------------------ C9

\* C9: a lookup of a host for which an upsert has returned finds that upsert's
\* origin, or what the latest write since then left.
C9_ResolveAfterUpsert ==
  resolved # <<>> /\ resolved[1].latest # <<>> =>
    resolved[1].value = resolved[1].latest[1]

\* A lookup that finds the origin an update wrote over the startup binding.
C9_Witness ==
  /\ resolved # <<>> /\ resolved[1].latest # <<>>
  /\ resolved[1].value = <<"http://o2">>

\* ------------------------------------------------------------------ C10

\* The bindings of the rows of the domains table.
RowBindings ==
  [d \in {db[i].domain : i \in DOMAIN db} |->
     db[CHOOSE i \in DOMAIN db : db[i].domain = d].origin]

\* C10: with no admin call in progress the routes are exactly the bindings of
\* the rows of the domains table.
C10_WriteThrough ==
  (\A a \in Admins : adm[a].pc = "idle") => routes = RowBindings

\* ------------------------------------------------------------------ C11

\* C11: when a delete of id i returns 204, the host that row i bound is no
\* longer a key of the routes, unless a row binds it again.
C11_DeleteRemoves ==
  aout # <<>> /\ aout[1].op = "delete" /\ aout[1].status = 204
    /\ aout[1].was # "" =>
      (aout[1].was \in DOMAIN routes => RowsOf(db, aout[1].was) # {})

\* ------------------------------------------------------------------ C12

Did(steps, x) == \E i \in 1..Len(steps) : steps[i] = x

\* C12: only GET handlers read the cache; a cache write is spawned only by a
\* GET handler whose upstream status is 200, so every pending set and every
\* stored entry has the key of a forwarded GET answered 200 upstream.
C12_CacheOnlyGet200 ==
  /\ \A r \in Reqs :
       req[r].pc \in {"cache", "cache_rm"} \/ Did(req[r].steps, "cache") =>
         req[r].method = "GET"
  /\ look # <<>> /\ look[1].hit => fin[1].method = "GET"
  /\ fin # <<>> =>
       /\ (Did(fin[1].steps, "cache") => fin[1].method = "GET")
       /\ (Did(fin[1].steps, "cache_write") =>
             /\ fin[1].method = "GET"
             /\ fin[1].up # <<>> /\ fin[1].up[1].status = 200)
  /\ \A r \in Reqs : settask[r].st # "none" => settask[r].key \in DOMAIN served
  /\ DOMAIN cache \subseteq DOMAIN served

\* A GET answered 404 by the upstream with a text body returns; nothing is
\* stored or about to be stored.
C12_Witness ==
  /\ fin # <<>> /\ fin[1].method = "GET"
  /\ fin[1].upbody # <<>> /\ is_utf8(fin[1].upbody[1])
  /\ fin[1].up[1].status = 404
  /\ cache = EmptyMap /\ \A r \in Reqs : settask[r].st = "none"

\* ------------------------------------------------------------------ C13

\* C13: a handler whose request has been sent upstream eventually returns a
\* response, whether or not the upstream answers.
C13_ForwardAnswered ==
  \A r \in {1} : (req[r].sent # <<>>) ~> (fin # <<>>)

\* ------------------------------------------------------------------ C14

\* C14: a handler that has emitted its log record eventually returns its
\* response, whether or not the sink's append returns.
C14_SinkNeverDelays ==
  \A r \in {1} : (req[r].logs # <<>>) ~> (fin # <<>>)

\* ------------------------------------------------------------------ C15

Stale(id) ==
  id \in DOMAIN rl /\ now - rl[id].start > WindowSeconds + WindowSeconds

\* C16: once the reaper's sleep has ended, an identity whose window started
\* more than 2W ago leaves the map (unless it called again and restarted its
\* window); and an allow(id) of an identity that has called before and is not
\* in the map returns true and stores (count 1, start now).
C16_EvictedThenNew ==
  /\ \A id \in Clients : (Stale(id) /\ now >= wake) ~> ~Stale(id)
  /\ [][\A id \in Clients :
          calls[id] # <<>> /\ id \notin DOMAIN rl
            /\ Len(calls'[id]) > Len(calls[id]) =>
              /\ calls'[id][Len(calls'[id])].ok
              /\ id \in DOMAIN rl'
              /\ rl'[id] = [count |-> 1, start |-> now]]_vars

\* An identity that had called before, was removed by the reaper, and called
\* again: the call found no entry, was admitted, and its window has count 1.
C16_Witness ==
  \E id \in Clients :
    /\ Len(calls[id]) >= 2
    /\ ~calls[id][Len(calls[id])].known /\ calls[id][Len(calls[id])].ok
    /\ id \in DOMAIN rl /\ rl[id].count = 1

\* ------------------------------------------------------------------ C17

\* C17: the count of every stored window is at most the configured limit.
C17_CountWithinLimit == \A id \in DOMAIN rl : rl[id].count <= limit

\* The same bound for the limits of at least one request per window.
CountWithinPositiveLimit == limit >= 1 => C17_CountWithinLimit

\* ------------------------------------------------------------------ C18

\* C18: a handler that awaited the sink answers the same status and body
\* whether the append returned Ok or Err: 404 naming the host after an unknown
\* host, 502 after a failed forward; and no response is a 500.
C18_SinkFailureHidden ==
  fin # <<>> =>
    /\ fin[1].resp[1].status # 500
    /\ (fin[1].saved \in SinkResults =>
          fin[1].resp =
            <<IF fin[1].pc = "save404" THEN resp_404(fin[1].host)
              ELSE resp_status(502)>>)

\* A 404 returned after the append of its log record failed.
C18_Witness ==
  /\ fin # <<>> /\ fin[1].saved = "err" /\ fin[1].pc = "save404"
  /\ fin[1].resp[1].status = 404

\* ------------------------------------------------------------------ C19

\* C19: no request handler waits for the sink, and no admin handler waits for
\* the store, with a guard of the routes alive.
C19_NoRouteLockAcrossAwait ==
  /\ \A r \in Reqs :
       handler_awaits_sink(req[r].pc) => "routes" \notin handler_holds(req[r].pc)
  /\ \A a \in Admins :
       admin_awaits_store(adm[a].pc) =>
         "routes" \notin admin_holds(adm[a].pc) /\ wlock # a

\* ------------------------------------------------------------------ C20

\* C20: an allow(id) call that returns false leaves the whole map as it was:
\* the count and window start of id and of every other identity.
C20_DenialLeavesState ==
  [][\A id \in Clients :
       Len(calls'[id]) > Len(calls[id]) /\ ~calls'[id][Len(calls'[id])].ok =>
         rl' = rl]_vars

\* A call denied later than the start of its window: the window still has its
\* start, and the count it had reached.
C20_Witness ==
  \E id \in Clients :
    /\ calls[id] # <<>> /\ ~calls[id][Len(calls[id])].ok
    /\ id \in DOMAIN rl /\ rl[id].start < calls[id][Len(calls[id])].t
    /\ rl[id].count >= 1

\* ------------------------------------------------------------------ C21

\* C21: when an update of id i that renames its host from h_old to h_new
\* returns 200, h_old is no longer a key of the routes (unless a row binds it
\* again) and h_new resolves to the origin of the update.
C21_RenameMovesRoute ==
  aout # <<>> /\ aout[1].op = "update" /\ aout[1].status = 200
    /\ aout[1].was # aout[1].domain =>
      /\ (aout[1].was \in DOMAIN routes => RowsOf(db, aout[1].was) # {})
      /\ resolve(routes, aout[1].domain) = <<aout[1].origin>>

\* ------------------------------------------------------------------ C22

\* The calls i..j of a history that returned true.
Admitted(h, i, j) == Cardinality({k \in i..j : h[k].ok})

\* C22: of the calls one identity makes within any interval of length at most
\* W, at most 2 * limit return true.
C22_BurstBound ==
  \A id \in Clients :
    \A i \in 1..Len(calls[id]), j \in 1..Len(calls[id]) :
      i <= j /\ calls[id][j].t - calls[id][i].t <= WindowSeconds =>
        Admitted(calls[id], i, j) <= 2 * limit

\* The same bound for the limits of at least one request per window.
BurstBoundPositive == limit >= 1 => C22_BurstBound

\* With limit 2, three calls admitted, the last two one second apart across
\* the end of the first window: the burst the bound allows for.
BurstReached ==
  \E id \in Clients :
    /\ limit = 2 /\ Len(calls[id]) = 3
    /\ \A i \in 1..3 : calls[id][i].ok
    /\ calls[id][3].t - calls[id][2].t <= 1
    /\ calls[id][3].t - calls[id][1].t > WindowSeconds

\* ------------------------------------------------------------------ C23

\* C23: an entry leaves the cache (only get removes) only when it is expired
\* at the moment of the removal.
C23_RemovesOnlyExpired ==
  [][\A k \in DOMAIN cache :
       k \notin DOMAIN cache' => cache[k].expires_at <= now]_vars

\* ------------------------------------------------------------------ C24

\* The answers allow gives to the timed calls h[i..] of one identity when no
\* reaper runs, from the map m.
RECURSIVE NoReaperAnswers(_, _, _)
NoReaperAnswers(h, i, m) ==
  IF i > Len(h) THEN <<>>
  ELSE LET r == allow(m, "id", h[i].t, limit)
       IN <<r.ok>> \o NoReaperAnswers(h, i + 1, r.map)

\* C24: the answers each identity got, with reaper passes interleaved, are
\* the answers the same timed calls get with no reaper; and a reaper pass
\* leaves every window that is not older than 2W as it was.
C24_ReaperInvisible ==
  /\ [](\A id \in Clients :
          [i \in 1..Len(calls[id]) |-> calls[id][i].ok]
            = NoReaperAnswers(calls[id], 1, EmptyMap))
  /\ [][wake' # wake =>
          \A id \in DOMAIN rl :
            now - rl[id].start <= 2 * WindowSeconds =>
              id \in DOMAIN rl' /\ rl'[id] = rl[id]]_vars

\* An identity was removed by the reaper and has called again, while the
\* window of another identity has lived through a pass of the reaper.
C24_Witness ==
  \E id \in Clients, id2 \in Clients :
    /\ id # id2
    /\ Len(calls[id]) >= 2 /\ ~calls[id][Len(calls[id])].known
    /\ id2 \in DOMAIN rl /\ wake > WindowSeconds
    /\ rl[id2].start <= wake - WindowSeconds

\* ------------------------------------------------------------------ C25

\* C25: every log record a handler emitted carries the status of the
\* response the handler returned.
C25_LogStatusIsResponseStatus ==
  fin # <<>> =>
    \A i \in 1..Len(fin[1].logs) :
      fin[1].logs[i].status = fin[1].resp[1].status

\* ------------------------------------------------------------------ C26

\* C26: an admin call whose database call returned Err answers 500, and the
\* step in which it answers leaves the routes as they were; a create for a
\* host that has a row is such a call.
C26_FailedWriteLeavesRoutes ==
  /\ [](aout # <<>> /\ aout[1].err # "" => aout[1].status = 500)
  /\ [][aout' # <<>> /\ aout'[1].err # "" =>
          /\ routes' = routes
          /\ \A a \in Admins : adm[a].pc = "idle" => adm'[a].pc = "idle"]_vars
  /\ [][\A a \in Admins :
          adm[a].pc = "idle" /\ adm'[a].op = "create" =>
            RowsOf(db, adm'[a].domain) = {}]_vars

\* A create for a host that already has a row is answered 500.
C26_Witness ==
  /\ aout # <<>> /\ aout[1].op = "create" /\ aout[1].err = "constraint"
  /\ aout[1].status = 500 /\ aout[1].domain \in DOMAIN routes

====
